---- MODULE Spec2Model ----
(***************************************************************************)
(* Model of the prediction-market arbitrage agent: the capital guard       *)
(* (src/src/capital_guard.py), the executor (src/src/executor.py), the     *)
(* portfolio manager (src/src/portfolio_manager.py) and the scan cycle     *)
(* (src/src/main.py, src/src/ai_crew.py, src/src/scanner.py).              *)
(*                                                                         *)
(* Money is modelled in whole dollars with exact integer arithmetic.       *)
(* A percentage of capital (0.2 in the code) is modelled in percent        *)
(* points (20), so max_capital * pct is (max_capital * pct) \div 100; the  *)
(* capital values and percentages drawn below keep that division exact.    *)
(* Prices are thousandths of a dollar; a cost is kept in units of 10^-6    *)
(* dollars, so that price * (1 + fee) is exact; a profit percentage is the *)
(* fraction num/den (times 100) and is compared by cross-multiplication.   *)
(* Where double-precision rounding decides a comparison of the code, the   *)
(* model carries the sign of the rounding error.                           *)
(***************************************************************************)
EXTENDS Integers, Sequences, FiniteSets, TLC

VARIABLES
    maxCapital,     \* CapitalGuard.max_capital
    used,           \* CapitalGuard.used
    guardHasConfig, \* CapitalGuard.config is not None
    mode,           \* Config.mode: "sim" | "live"
    maxPositionPct, \* Config.max_position_pct_of_capital, in percent points
    creds,          \* which venue credentials are set in Config
    clobInstalled,  \* whether py_clob_client can be imported
    minProfitPct,   \* Config.pm_min_profit_pct, in hundredths of a percent
    llmConfigured,  \* AICrew._llm is set and Config.ai.api_key is set
    call,           \* the last direct call of a guard or portfolio method and what it returned
    pc,             \* per task: where its execute call is suspended ("idle": none running)
    opp,            \* per task: the opportunity being executed
    orderIds,       \* per task: the local list order_ids of _execute_pm
    sent,           \* per task: the placement calls made to the venues so far
    legs,           \* per task: what each venue's placement call returned
    usedAtAdmission,\* per task: guard.used when can_allocate was evaluated
    orderSeq,       \* the venues' count of order identifiers handed out
    ret,            \* the execute call that returned last: its result and what it did
    positions,      \* PortfolioManager.positions
    realizedPnl,    \* PortfolioManager.realized_pnl
    feesPaid,       \* PortfolioManager.fees_paid
    pending,        \* run_scan_cycle: the opportunities of the cycle not yet handled
    alerts          \* the kinds of message run_scan_cycle has passed to send_alert

guardVars == <<maxCapital, used, guardHasConfig>>
cfgVars   == <<mode, maxPositionPct, creds, clobInstalled, minProfitPct, llmConfigured>>
taskVars  == <<pc, opp, orderIds, sent, legs, usedAtAdmission>>
execVars  == <<taskVars, orderSeq, ret>>
portVars  == <<positions, realizedPnl, feesPaid>>
vars      == <<guardVars, cfgVars, call, execVars, portVars, pending, alerts>>

-----------------------------------------------------------------------------
(* Bounds of the model *)

\* capital values are 500 * k for k in 0..MaxCapitalSteps
MaxCapitalSteps == 2
\* amounts handed to the guard are 100 * j for j in -MaxAmountSteps..MaxAmountSteps
MaxAmountSteps == 3
\* percentages are 20 * k percent points for k in 0..MaxPctSteps
MaxPctSteps == 3
\* number of execute calls that may be in flight at once
NumCalls == 2
\* opportunity sizes handed to execute are 500 * j for j in -1..MaxSizeSteps
MaxSizeSteps == 1
\* no execute call starts once this many positions are recorded or under way
MaxPositions == 2
\* no execute call starts once the venues have handed out this many order identifiers
MaxOrders == 2

\* number of markets a venue's fetch returns at most
MaxMarkets == 2

\* Config.capital_usd default
DefaultCapitalUsd == 5000
\* Config.pm_min_profit_pct default (0.5), in hundredths of a percent
DefaultMinProfitPct == 50
\* poly_fee = 0.005 and kalshi_fee = 0.003, as the factor 1 + fee in thousandths
PolyFeeFactor == 1005
KalshiFeeFactor == 1003
\* Config.max_position_pct_of_capital default and the literal 0.2 of
\* get_safe_position_size, in percent points
DefaultMaxPositionPct == 20
\* the nominal suggested size the scanner hands to get_safe_position_size
NominalSize == 1000

CapitalValues == {500 * k : k \in 0..MaxCapitalSteps}
Amounts       == {100 * j : j \in (0 - MaxAmountSteps)..MaxAmountSteps}
PctValues     == {20 * k : k \in 0..MaxPctSteps}
\* an Optional[float] max_pct argument: None, or a value
OptPcts       == {[some |-> FALSE, v |-> 0]} \cup {[some |-> TRUE, v |-> q] : q \in PctValues}
\* the largest value used may take in the model
UsedCeiling   == 500 * MaxCapitalSteps + 100 * MaxAmountSteps

Max(a, b) == IF a >= b THEN a ELSE b
Min(a, b) == IF a <= b THEN a ELSE b
Min3(a, b, c) == Min(a, Min(b, c))

-----------------------------------------------------------------------------
(* CapitalGuard: the methods as functions of the ledger *)

\* CapitalGuard.free_capital
FreeCapital(mc, u) == Max(0, mc - u)

\* allocate without its ceiling check
AllocateNoCeiling(mc, u, amount) ==
    IF amount <= 0 THEN [ret |-> FALSE, used |-> u]
    ELSE [ret |-> TRUE, used |-> u + amount]

\* allocate rejecting an amount equal to the free capital
AllocateStrict(mc, u, amount) ==
    IF amount <= 0 THEN [ret |-> FALSE, used |-> u]
    ELSE IF u + amount >= mc THEN [ret |-> FALSE, used |-> u]
    ELSE [ret |-> TRUE, used |-> u + amount]

\* CapitalGuard.allocate: the returned bool and the new value of used
Allocate(mc, u, amount) ==
    IF amount <= 0 THEN [ret |-> FALSE, used |-> u]
    ELSE IF u + amount > mc THEN [ret |-> FALSE, used |-> u]
    ELSE [ret |-> TRUE, used |-> u + amount]

\* release without its floor at zero
ReleaseNoFloor(u, amount) == u - amount

\* CapitalGuard.release: the new value of used
Release(u, amount) == Max(0, u - amount)

\* can_allocate without its ceiling check
CanAllocateNoCeiling(mc, u, amount) ==
    IF amount <= 0 THEN FALSE ELSE TRUE

\* can_allocate admitting an amount of zero
CanAllocateAdmitsZero(mc, u, amount) ==
    IF amount < 0 THEN FALSE
    ELSE IF u + amount > mc THEN FALSE
    ELSE TRUE

\* CapitalGuard.can_allocate
CanAllocate(mc, u, amount) ==
    IF amount <= 0 THEN FALSE
    ELSE IF u + amount > mc THEN FALSE
    ELSE TRUE

\* pct = max_pct or (self.config.max_position_pct_of_capital if self.config else 0.2):
\* Python's `or` takes the right operand when max_pct is None or 0
EffectivePct(hasCfg, cfgPct, maxPct) ==
    IF maxPct.some /\ maxPct.v # 0 THEN maxPct.v
    ELSE IF hasCfg THEN cfgPct ELSE DefaultMaxPositionPct

\* get_safe_position_size without the cap by percentage of capital
GetSafePositionSizeNoPctCap(mc, u, hasCfg, cfgPct, suggested, maxPct) ==
    Min(suggested, FreeCapital(mc, u))

\* CapitalGuard.get_safe_position_size
GetSafePositionSize(mc, u, hasCfg, cfgPct, suggested, maxPct) ==
    LET pct       == EffectivePct(hasCfg, cfgPct, maxPct)
        max_by_pct  == (mc * pct) \div 100
        max_by_free == FreeCapital(mc, u)
    IN  Min3(suggested, max_by_pct, max_by_free)

-----------------------------------------------------------------------------
(* Records *)

Tasks == 1..NumCalls

NoPct  == [some |-> FALSE, v |-> 0]
NoCall == [op |-> "none", amount |-> 0, pct |-> NoPct, ret |-> 0, ok |-> FALSE,
           usedBefore |-> 0]

\* Opportunity: type, size_usd, net_profit_pct (as the fraction num/den, times 100)
\* and the two venue identifiers of details the executor reads
NoOpp  == [type |-> "none", size_usd |-> 0, profit |-> [num |-> 0, den |-> 1],
           poly_yes_token_id |-> FALSE, kalshi_ticker |-> FALSE]
NoSent == [poly |-> FALSE, kalshi |-> FALSE]
\* what each placement returned, and the identifier it reported ("": none)
NoLegs == [poly |-> "none", kalshi |-> "none", polyId |-> "", kalshiId |-> ""]
NoRet  == [task |-> 0, opp |-> NoOpp, success |-> FALSE, size_usd |-> 0,
           message |-> "", order_ids |-> <<>>, allocCalled |-> FALSE, debit |-> 0,
           sent |-> NoSent, legs |-> NoLegs, usedAtAdmission |-> 0, usedAfter |-> 0]

CredsAllSet == [poly_private_key |-> TRUE, kalshi_api_key |-> TRUE,
                kalshi_api_secret |-> TRUE]
CredsValues == [poly_private_key : BOOLEAN, kalshi_api_key : BOOLEAN,
                kalshi_api_secret : BOOLEAN]

\* no execute call running, nothing returned yet, empty portfolio, no cycle running
Quiescent ==
    /\ pc = [p \in Tasks |-> "idle"]
    /\ opp = [p \in Tasks |-> NoOpp]
    /\ orderIds = [p \in Tasks |-> <<>>]
    /\ sent = [p \in Tasks |-> NoSent]
    /\ legs = [p \in Tasks |-> NoLegs]
    /\ usedAtAdmission = [p \in Tasks |-> 0]
    /\ orderSeq = 0
    /\ ret = NoRet
    /\ positions = <<>>
    /\ realizedPnl = 0
    /\ feesPaid = 0
    /\ pending = <<>>
    /\ alerts = {}
    /\ call = NoCall

-----------------------------------------------------------------------------
(* Direct calls of the guard's methods, with arbitrary arguments *)

\* guard.allocate(amount)
GuardAllocate(amount) ==
    LET a == Allocate(maxCapital, used, amount)
    IN  /\ used' = a.used
        /\ call' = [op |-> "allocate", amount |-> amount, pct |-> NoPct, ret |-> 0,
                    ok |-> a.ret, usedBefore |-> used]
        /\ UNCHANGED <<maxCapital, guardHasConfig, cfgVars, execVars, portVars, pending, alerts>>

\* guard.release(amount)
GuardRelease(amount) ==
    /\ Release(used, amount) <= UsedCeiling
    /\ used' = Release(used, amount)
    /\ call' = [op |-> "release", amount |-> amount, pct |-> NoPct, ret |-> 0,
                ok |-> FALSE, usedBefore |-> used]
    /\ UNCHANGED <<maxCapital, guardHasConfig, cfgVars, execVars, portVars, pending, alerts>>

\* await guard.can_allocate(amount)
GuardCanAllocate(amount) ==
    /\ call' = [op |-> "can_allocate", amount |-> amount, pct |-> NoPct, ret |-> 0,
                ok |-> CanAllocate(maxCapital, used, amount), usedBefore |-> used]
    /\ UNCHANGED <<guardVars, cfgVars, execVars, portVars, pending, alerts>>

\* guard.get_safe_position_size(suggested_size, max_pct)
GuardSafeSize(suggested, maxPct) ==
    /\ call' = [op |-> "safe_size", amount |-> suggested, pct |-> maxPct,
                ret |-> GetSafePositionSize(maxCapital, used, guardHasConfig,
                                            maxPositionPct, suggested, maxPct),
                ok |-> FALSE, usedBefore |-> used]
    /\ UNCHANGED <<guardVars, cfgVars, execVars, portVars, pending, alerts>>

\* CapitalGuard.__init__(max_capital, config) with max_capital >= 0, then no call yet
GuardInit ==
    /\ maxCapital \in CapitalValues
    /\ used = 0
    /\ guardHasConfig \in BOOLEAN
    /\ maxPositionPct \in PctValues
    /\ mode = "sim"
    /\ creds = CredsAllSet
    /\ clobInstalled = TRUE
    /\ minProfitPct = DefaultMinProfitPct
    /\ llmConfigured = FALSE
    /\ Quiescent

GuardNext ==
    \/ \E amount \in Amounts : GuardAllocate(amount)
    \/ \E amount \in Amounts : GuardRelease(amount)
    \/ \E amount \in Amounts : GuardCanAllocate(amount)
    \/ \E suggested \in Amounts \cup {NominalSize}, maxPct \in OptPcts :
          GuardSafeSize(suggested, maxPct)

GuardSpec == GuardInit /\ [][GuardNext]_vars

-----------------------------------------------------------------------------
(* PortfolioManager *)

\* Position(id, type, size_usd, entry_time, expected_profit_pct, status="open")
NewPosition(o, order_ids) ==
    [id |-> IF order_ids # <<>> THEN order_ids[1] ELSE "unknown",
     type |-> o.type,
     size_usd |-> o.size_usd,
     expected_profit_pct |-> o.profit,
     status |-> "open"]

\* close_position's search without its test of the status
FirstOpenAnyStatus(ps, pos_id) ==
    LET hits == {i \in 1..Len(ps) : ps[i].id = pos_id}
    IN  IF hits = {} THEN 0 ELSE CHOOSE i \in hits : \A j \in hits : i <= j

\* the index close_position's loop stops at: the first open position with that id
\* (0: none)
FirstOpen(ps, pos_id) ==
    LET hits == {i \in 1..Len(ps) : ps[i].id = pos_id /\ ps[i].status = "open"}
    IN  IF hits = {} THEN 0 ELSE CHOOSE i \in hits : \A j \in hits : i <= j

\* close_position deleting the position it closes
ClosePositionBodyDeletes(pos_id, pnl, fees) ==
    LET i == FirstOpen(positions, pos_id)
    IN  IF i = 0
        THEN UNCHANGED <<positions, realizedPnl, feesPaid, used>>
        ELSE /\ positions' = SubSeq(positions, 1, i - 1)
                                \o SubSeq(positions, i + 1, Len(positions))
             /\ realizedPnl' = realizedPnl + pnl
             /\ feesPaid' = feesPaid + fees
             /\ used' = Release(used, positions[i].size_usd)

\* close_position without its call of guard.release
ClosePositionBodyKeepsCapital(pos_id, pnl, fees) ==
    LET i == FirstOpen(positions, pos_id)
    IN  IF i = 0
        THEN UNCHANGED <<positions, realizedPnl, feesPaid, used>>
        ELSE /\ positions' = [positions EXCEPT ![i].status = "closed"]
             /\ realizedPnl' = realizedPnl + pnl
             /\ feesPaid' = feesPaid + fees
             /\ used' = used

\* what close_position(pos_id, pnl, fees) does to the portfolio and the guard
ClosePositionBody(pos_id, pnl, fees) ==
    LET i == FirstOpen(positions, pos_id)
    IN  IF i = 0
        THEN UNCHANGED <<positions, realizedPnl, feesPaid, used>>
        ELSE /\ positions' = [positions EXCEPT ![i].status = "closed"]
             /\ realizedPnl' = realizedPnl + pnl
             /\ feesPaid' = feesPaid + fees
             /\ used' = Release(used, positions[i].size_usd)

\* portfolio.close_position(pos_id, pnl, fees)
ClosePosition(pos_id, pnl, fees) ==
    /\ ClosePositionBody(pos_id, pnl, fees)
    /\ UNCHANGED <<maxCapital, guardHasConfig, cfgVars, call, execVars, pending, alerts>>

\* the ids of the close_position calls made so far, and the indexes of the
\* positions whose size they released, in call order
ClosedIdsSoFar == IF call.op = "close_position" THEN call.ids ELSE {}
ReleaseLog     == IF call.op = "close_position" THEN call.log ELSE <<>>

\* portfolio.close_position(pos_id, pnl, fees), its call and return value recorded:
\* found is whether it returned a position, released the amount it passed to
\* guard.release
ClosePositionCall(pos_id, pnl, fees) ==
    LET i == FirstOpen(positions, pos_id)
    IN  /\ ClosePositionBody(pos_id, pnl, fees)
        /\ call' = [op |-> "close_position", id |-> pos_id, pnl |-> pnl, fees |-> fees,
                    found |-> i # 0,
                    again |-> pos_id \in ClosedIdsSoFar,
                    ids |-> ClosedIdsSoFar \cup {pos_id},
                    log |-> IF i # 0 THEN Append(ReleaseLog, i) ELSE ReleaseLog,
                    released |-> IF i # 0 THEN [some |-> TRUE, v |-> positions[i].size_usd]
                                          ELSE [some |-> FALSE, v |-> 0],
                    before |-> [positions |-> positions, realizedPnl |-> realizedPnl,
                                feesPaid |-> feesPaid, used |-> used],
                    after |-> [positions |-> positions', realizedPnl |-> realizedPnl',
                               feesPaid |-> feesPaid', used |-> used']]
        /\ UNCHANGED <<maxCapital, guardHasConfig, cfgVars, execVars, pending, alerts>>

\* an amount of money that is a ratio of integers, and the sum of two of them
Money(n) == [num |-> n, den |-> 1]
AddMoney(x, y) ==
    IF x.den = y.den THEN [num |-> x.num + y.num, den |-> x.den]
    ELSE [num |-> x.num * y.den + y.num * x.den, den |-> x.den * y.den]

\* p.size_usd * (p.expected_profit_pct / 100), expected_profit_pct being
\* num / den * 100
ExpectedProfit(p) ==
    [num |-> p.size_usd * p.expected_profit_pct.num, den |-> p.expected_profit_pct.den]

RECURSIVE UnrealizedCountsClosed(_), Unrealized(_)

\* get_snapshot summing over every position, closed ones included
UnrealizedCountsClosed(ps) ==
    IF ps = <<>> THEN Money(0)
    ELSE AddMoney(UnrealizedCountsClosed(SubSeq(ps, 1, Len(ps) - 1)),
                  ExpectedProfit(ps[Len(ps)]))

\* sum(p.size_usd * (p.expected_profit_pct / 100) for p in self.positions
\*     if p.status == "open"), summed in list order
Unrealized(ps) ==
    IF ps = <<>> THEN Money(0)
    ELSE LET rest == Unrealized(SubSeq(ps, 1, Len(ps) - 1))
             p == ps[Len(ps)]
         IN  IF p.status = "open" THEN AddMoney(rest, ExpectedProfit(p)) ELSE rest

\* portfolio.get_snapshot(): PnLSnapshot(total_pnl, realized_pnl, unrealized_pnl,
\* fees_paid)
GetSnapshot(ps, realized, fees) ==
    LET unrealized == Unrealized(ps)
    IN  [total_pnl |-> AddMoney(AddMoney(Money(realized), unrealized), Money(0 - fees)),
         realized_pnl |-> realized,
         unrealized_pnl |-> unrealized,
         fees_paid |-> fees]

\* portfolio.get_snapshot(), its return value recorded
GetSnapshotCall ==
    /\ call' = [op |-> "get_snapshot",
                ret |-> GetSnapshot(positions, realizedPnl, feesPaid)]
    /\ UNCHANGED <<guardVars, cfgVars, execVars, portVars, pending, alerts>>

-----------------------------------------------------------------------------
(* Executor.execute, as run_scan_cycle calls it (main.py lines 56-66): each task *)
(* p runs one call at a time; a call is suspended only at its two awaits of a   *)
(* venue's order placement.                                                      *)

\* the identifier a venue hands out with a placed order
VenueOrderId(n) == "ord-" \o ToString(n)

\* ExecutionResult(success, opp.type, opp.size_usd, message, order_ids)
Result(success, message, order_ids) ==
    [success |-> success, message |-> message, order_ids |-> order_ids]

\* execute returns res to run_scan_cycle, which on success records a position and
\* sends the "Arb executed" alert, and on failure does nothing.
\* allocCalled: guard.allocate was called in this step, leaving used at newUsed.
Return(p, o, res, snt, lg, adm, allocCalled, newUsed) ==
    /\ used' = newUsed
    /\ ret' = [task |-> p, opp |-> o, success |-> res.success,
               size_usd |-> o.size_usd, message |-> res.message,
               order_ids |-> res.order_ids, allocCalled |-> allocCalled,
               debit |-> newUsed - used, sent |-> snt, legs |-> lg,
               usedAtAdmission |-> adm, usedAfter |-> newUsed]
    /\ positions' = IF res.success
                       THEN Append(positions, NewPosition(o, res.order_ids))
                       ELSE positions
    /\ alerts' = IF res.success THEN alerts \cup {"executed"} ELSE alerts
    /\ pc' = [pc EXCEPT ![p] = "idle"]
    /\ opp' = [opp EXCEPT ![p] = NoOpp]
    /\ orderIds' = [orderIds EXCEPT ![p] = <<>>]
    /\ sent' = [sent EXCEPT ![p] = NoSent]
    /\ legs' = [legs EXCEPT ![p] = NoLegs]
    /\ usedAtAdmission' = [usedAtAdmission EXCEPT ![p] = 0]

\* the call suspends at an await of a venue's placement
Suspend(p, o, at, ids, snt, lg, adm) ==
    /\ pc' = [pc EXCEPT ![p] = at]
    /\ opp' = [opp EXCEPT ![p] = o]
    /\ orderIds' = [orderIds EXCEPT ![p] = ids]
    /\ sent' = [sent EXCEPT ![p] = snt]
    /\ legs' = [legs EXCEPT ![p] = lg]
    /\ usedAtAdmission' = [usedAtAdmission EXCEPT ![p] = adm]
    /\ UNCHANGED <<used, ret, positions, alerts>>

\* _execute_pm testing the credentials before the identifiers
ExecutePmBeginCredsFirst(p, o) ==
    IF ~creds.poly_private_key \/ ~creds.kalshi_api_key \/ ~creds.kalshi_api_secret
    THEN Return(p, o, Result(FALSE, "PM arb requires Poly + Kalshi credentials", <<>>),
                NoSent, NoLegs, used, FALSE, used)
    ELSE IF ~o.poly_yes_token_id \/ ~o.kalshi_ticker
    THEN Return(p, o, Result(FALSE, "Missing poly token or kalshi ticker", <<>>),
                NoSent, NoLegs, used, FALSE, used)
    ELSE IF clobInstalled
    THEN Suspend(p, o, "poly", <<>>, [NoSent EXCEPT !.poly = TRUE], NoLegs, used)
    ELSE Suspend(p, o, "kalshi", <<>>, [NoSent EXCEPT !.kalshi = TRUE],
                 [NoLegs EXCEPT !.poly = "skipped"], used)

\* _execute_pm from its entry to the first await (lines 90-115, 122-125)
ExecutePmBegin(p, o) ==
    IF ~o.poly_yes_token_id \/ ~o.kalshi_ticker
    THEN Return(p, o, Result(FALSE, "Missing poly token or kalshi ticker", <<>>),
                NoSent, NoLegs, used, FALSE, used)
    ELSE IF ~creds.poly_private_key \/ ~creds.kalshi_api_key \/ ~creds.kalshi_api_secret
    THEN Return(p, o, Result(FALSE, "PM arb requires Poly + Kalshi credentials", <<>>),
                NoSent, NoLegs, used, FALSE, used)
    ELSE IF o.poly_yes_token_id /\ creds.poly_private_key
    THEN IF clobInstalled
         THEN Suspend(p, o, "poly", <<>>, [NoSent EXCEPT !.poly = TRUE], NoLegs, used)
         \* ImportError: the Polymarket order is skipped, and since kalshi_ticker is set
         \* the Kalshi order is placed
         ELSE Suspend(p, o, "kalshi", <<>>, [NoSent EXCEPT !.kalshi = TRUE],
                      [NoLegs EXCEPT !.poly = "skipped"], used)
    ELSE Suspend(p, o, "kalshi", <<>>, [NoSent EXCEPT !.kalshi = TRUE], NoLegs, used)

\* execute testing the opportunity type before the simulation flag
ExecuteBeginLiveFirst(p, o) ==
    IF ~CanAllocate(maxCapital, used, o.size_usd)
    THEN Return(p, o, Result(FALSE, "Insufficient capital allocation", <<>>),
                NoSent, NoLegs, used, FALSE, used)
    ELSE IF o.type = "pm_poly_kalshi"
    THEN ExecutePmBegin(p, o)
    ELSE IF mode = "sim"
    THEN Return(p, o, Result(TRUE, "Simulation execution logged", <<"sim-" \o o.type>>),
                NoSent, NoLegs, used, TRUE, Allocate(maxCapital, used, o.size_usd).used)
    ELSE Return(p, o, Result(FALSE, "Unsupported type", <<>>),
                NoSent, NoLegs, used, FALSE, used)

\* Executor.execute from its entry to the first await or to its return (lines 59-86)
ExecuteBegin(p, o) ==
    IF ~CanAllocate(maxCapital, used, o.size_usd)
    THEN Return(p, o, Result(FALSE, "Insufficient capital allocation", <<>>),
                NoSent, NoLegs, used, FALSE, used)
    ELSE IF mode = "sim"
    THEN Return(p, o, Result(TRUE, "Simulation execution logged", <<"sim-" \o o.type>>),
                NoSent, NoLegs, used, TRUE, Allocate(maxCapital, used, o.size_usd).used)
    ELSE IF o.type = "pm_poly_kalshi"
    THEN ExecutePmBegin(p, o)
    ELSE Return(p, o, Result(FALSE, "Unsupported type", <<>>),
                NoSent, NoLegs, used, FALSE, used)

\* the end of _execute_pm once the Kalshi leg is settled (lines 141-144)
ExecutePmEnd(p, ids, lg) ==
    IF Len(ids) < 2
    THEN Return(p, opp[p], Result(FALSE, "Both Poly and Kalshi orders required", ids),
                sent[p], lg, usedAtAdmission[p], FALSE, used)
    ELSE Return(p, opp[p], Result(TRUE, "PM arb executed", ids),
                sent[p], lg, usedAtAdmission[p], TRUE,
                Allocate(maxCapital, used, opp[p].size_usd).used)

\* a task calls executor.execute(o)
ExecuteCall(p, o) ==
    /\ pc[p] = "idle"
    /\ ExecuteBegin(p, o)
    /\ UNCHANGED <<maxCapital, guardHasConfig, cfgVars, call, orderSeq, realizedPnl,
                   feesPaid, pending>>

\* asyncio.to_thread(_place_poly_order) completes (lines 115-125):
\*   "id"    a response carrying orderID
\*   "noid"  a response without orderID: resp.get("orderID", "poly")
\*   "error" any exception
PolyOrderReturns(p, outcome) ==
    /\ pc[p] = "poly"
    /\ \/ /\ outcome = "error"
          /\ Return(p, opp[p], Result(FALSE, "Polymarket: error", orderIds[p]),
                    sent[p], [legs[p] EXCEPT !.poly = "error"], usedAtAdmission[p],
                    FALSE, used)
          /\ UNCHANGED orderSeq
       \/ /\ outcome \in {"id", "noid"}
          /\ orderSeq' = IF outcome = "id" THEN orderSeq + 1 ELSE orderSeq
          /\ Suspend(p, opp[p], "kalshi",
                     Append(orderIds[p],
                            IF outcome = "id" THEN VenueOrderId(orderSeq + 1) ELSE "poly"),
                     [sent[p] EXCEPT !.kalshi = TRUE],
                     [legs[p] EXCEPT !.poly = outcome,
                                     !.polyId = IF outcome = "id"
                                                THEN VenueOrderId(orderSeq + 1) ELSE ""],
                     usedAtAdmission[p])
    /\ UNCHANGED <<maxCapital, guardHasConfig, cfgVars, call, realizedPnl, feesPaid,
                   pending>>

\* the Kalshi leg's failure returning an empty order-id list
KalshiOrderReturnsDropsIds(p, outcome) ==
    /\ pc[p] = "kalshi"
    /\ Return(p, opp[p], Result(FALSE, "Kalshi order failed", <<>>),
              sent[p], [legs[p] EXCEPT !.kalshi = "failed"], usedAtAdmission[p],
              FALSE, used)
    /\ UNCHANGED <<maxCapital, guardHasConfig, cfgVars, call, orderSeq, realizedPnl,
                   feesPaid, pending>>

\* place_kalshi_order completes (lines 125-144):
\*   "id"     a response carrying order_id (or id)
\*   "noid"   a non-empty response without either: the default "kalshi"
\*   "failed" None
KalshiOrderReturns(p, outcome) ==
    /\ pc[p] = "kalshi"
    /\ \/ /\ outcome = "failed"
          /\ Return(p, opp[p], Result(FALSE, "Kalshi order failed", orderIds[p]),
                    sent[p], [legs[p] EXCEPT !.kalshi = "failed"], usedAtAdmission[p],
                    FALSE, used)
          /\ UNCHANGED orderSeq
       \/ /\ outcome \in {"id", "noid"}
          /\ orderSeq' = IF outcome = "id" THEN orderSeq + 1 ELSE orderSeq
          /\ ExecutePmEnd(p,
                          Append(orderIds[p],
                                 IF outcome = "id" THEN VenueOrderId(orderSeq + 1)
                                                   ELSE "kalshi"),
                          [legs[p] EXCEPT !.kalshi = outcome,
                                          !.kalshiId = IF outcome = "id"
                                                       THEN VenueOrderId(orderSeq + 1)
                                                       ELSE ""])
    /\ UNCHANGED <<maxCapital, guardHasConfig, cfgVars, call, realizedPnl, feesPaid,
                   pending>>

-----------------------------------------------------------------------------
(* Specifications of the executor *)

ExecSizes == {500 * j : j \in (0 - 1)..MaxSizeSteps}
\* any opportunity a caller may hand to execute
ExecOpps  == [type : {"pm_poly_kalshi", "other"}, size_usd : ExecSizes,
              profit : {[num |-> 3, den |-> 97]},
              poly_yes_token_id : BOOLEAN, kalshi_ticker : BOOLEAN]
\* the opportunities the scanner builds from complete market records
FullOpps  == {o \in ExecOpps : /\ o.type = "pm_poly_kalshi" /\ o.size_usd >= 0
                               /\ o.poly_yes_token_id /\ o.kalshi_ticker}
PolyOutcomes   == {"id", "noid", "error"}
KalshiOutcomes == {"id", "noid", "failed"}
InFlight == Cardinality({p \in Tasks : pc[p] # "idle"})
PositionIds == {positions[i].id : i \in 1..Len(positions)}

\* may another execute call start: the model's cap on positions and order identifiers
MayStart ==
    /\ Len(positions) + InFlight < MaxPositions
    /\ orderSeq < MaxOrders

(* Spec: execute calls in flight at once, interleaving at their awaits, and closes, *)
(* sharing one guard; both venues are configured, and a placement either reports   *)
(* an order identifier or fails                                                    *)
Init ==
    /\ maxCapital \in CapitalValues
    /\ used = 0
    /\ guardHasConfig = TRUE
    /\ maxPositionPct = DefaultMaxPositionPct
    /\ mode \in {"sim", "live"}
    /\ creds = CredsAllSet
    /\ clobInstalled = TRUE
    /\ minProfitPct = DefaultMinProfitPct
    /\ llmConfigured = FALSE
    /\ Quiescent

Next ==
    \/ \E p \in Tasks, o \in FullOpps : MayStart /\ ExecuteCall(p, o)
    \/ \E p \in Tasks, outcome \in {"id", "error"} : PolyOrderReturns(p, outcome)
    \/ \E p \in Tasks, outcome \in {"id", "failed"} : KalshiOrderReturns(p, outcome)
    \/ \E pos_id \in PositionIds \cup {"unknown"} : ClosePosition(pos_id, 5, 1)

Spec == Init /\ [][Next]_vars

(* SeqSpec: one execute call at a time, with any opportunity and any configuration; *)
(* closes between calls                                                            *)
SeqInit ==
    /\ maxCapital \in CapitalValues
    /\ used = 0
    /\ guardHasConfig = TRUE
    /\ maxPositionPct = DefaultMaxPositionPct
    /\ mode \in {"sim", "live"}
    /\ creds \in CredsValues
    /\ clobInstalled \in BOOLEAN
    /\ minProfitPct = DefaultMinProfitPct
    /\ llmConfigured = FALSE
    /\ Quiescent

SeqNext ==
    \/ \E o \in ExecOpps : InFlight = 0 /\ MayStart /\ ExecuteCall(1, o)
    \/ \E outcome \in PolyOutcomes : PolyOrderReturns(1, outcome)
    \/ \E outcome \in KalshiOutcomes : KalshiOrderReturns(1, outcome)
    \/ \E pos_id \in PositionIds \cup {"unknown"} :
          InFlight = 0 /\ ClosePosition(pos_id, 5, 1)

SeqSpec == SeqInit /\ [][SeqNext]_vars

-----------------------------------------------------------------------------
(* Scanner: the matcher and the opportunity detector *)

\* a text is the sequence of its characters
LowerCase == {"a", "b", "c", "d", "e", "f", "g", "h", "i", "j", "k", "l", "m", "n", "o",
              "p", "q", "r", "s", "t", "u", "v", "w", "x", "y", "z"}
Digits    == {"0", "1", "2", "3", "4", "5", "6", "7", "8", "9"}
\* the characters the pattern \w matches after lower(): letters, digits and "_"
WordChars == LowerCase \cup Digits \cup {"_"}
\* the characters \s matches
Whitespace == {" "}

\* str.lower() on one character
Lower(c) ==
    CASE c = "B" -> "b"
      [] c = "C" -> "c"
      [] c = "F" -> "f"
      [] c = "T" -> "t"
      [] c = "W" -> "w"
      [] OTHER   -> c

\* re.sub(r"[^\w\s]", " ", str(text).lower()): every character that is neither a
\* word character nor whitespace becomes a space
Cleaned(text) ==
    [i \in 1..Len(text) |->
        LET c == Lower(text[i])
        IN  IF c \in WordChars \cup Whitespace THEN c ELSE " "]

\* cleaned.split(): the maximal runs of characters that are not whitespace
Split(cleaned) ==
    {SubSeq(cleaned, i, j) : <<i, j>> \in
        {r \in (1..Len(cleaned)) \X (1..Len(cleaned)) :
            /\ r[1] <= r[2]
            /\ \A k \in r[1]..r[2] : cleaned[k] \notin Whitespace
            /\ (r[1] = 1 \/ cleaned[r[1] - 1] \in Whitespace)
            /\ (r[2] = Len(cleaned) \/ cleaned[r[2] + 1] \in Whitespace)}}

\* _STOPWORDS
Stopwords == {<<"t", "h", "e">>,
              <<"a">>,
              <<"a", "n">>,
              <<"w", "i", "l", "l">>,
              <<"b", "e">>,
              <<"b", "y">>,
              <<"b", "e", "f", "o", "r", "e">>,
              <<"a", "f", "t", "e", "r">>,
              <<"o", "n">>,
              <<"i", "n">>,
              <<"t", "o">>,
              <<"o", "f">>,
              <<"f", "o", "r">>,
              <<"a", "n", "d">>,
              <<"o", "r">>,
              <<"i", "s">>,
              <<"a", "t">>}

\* _normalize_tokens
NormalizeTokens(text) ==
    IF text = <<>> THEN {}
    ELSE {t \in Split(Cleaned(text)) : Len(t) > 2 /\ t \notin Stopwords}

\* _question_similarity comparing the intersection with the first set only
QuestionSimilarityOneSided(q1, q2) ==
    LET t1 == NormalizeTokens(q1)
        t2 == NormalizeTokens(q2)
    IN  IF t1 = {} \/ t2 = {} THEN FALSE
        ELSE 5 * Cardinality(t1 \cap t2) >= Cardinality(t1)

\* _question_similarity with min_jaccard = 0.2: inter / union >= 1/5
QuestionSimilarity(q1, q2) ==
    LET t1 == NormalizeTokens(q1)
        t2 == NormalizeTokens(q2)
        inter == Cardinality(t1 \cap t2)
        union == Cardinality(t1 \cup t2)
    IN  IF t1 = {} \/ t2 = {} THEN FALSE
        ELSE IF union = 0 THEN FALSE
        ELSE 5 * inter >= union

\* total_cost = pm.yes_ask * (1 + poly_fee) + km.no_ask * (1 + kalshi_fee), as the
\* exact sum in units of 10^-6 dollars (1.0 is 1000000)
TotalCost(pm, km) == pm.yes_ask * PolyFeeFactor + km.no_ask * KalshiFeeFactor

\* the sign of the error of the double-precision total_cost against the exact sum,
\* where it decides a comparison: 0.506 * (1 + 0.005) + 0.49 * (1 + 0.003) evaluates
\* to 0.9999999999999999, below the exact sum 1.0
TotalCostRounding(pm, km) ==
    IF pm.yes_ask = 506 /\ km.no_ask = 490 THEN 0 - 1 ELSE 0

\* if total_cost < 1.0, on the double-precision value
TotalCostBelowOne(pm, km) ==
    \/ TotalCost(pm, km) < 1000000
    \/ TotalCost(pm, km) = 1000000 /\ TotalCostRounding(pm, km) < 0

\* profit_pct = (1.0 - total_cost) / total_cost * 100
ProfitPct(total_cost) == [num |-> 1000000 - total_cost, den |-> total_cost]

\* profit >= threshold, the threshold in hundredths of a percent
ProfitAtLeast(profit, threshold) ==
    profit.num * 100 * 100 >= threshold * profit.den

\* the Opportunity the scanner appends for a pair (lines 108-123)
ScanOpportunity(pm, km, size) ==
    [type |-> "pm_poly_kalshi",
     size_usd |-> size,
     profit |-> ProfitPct(TotalCost(pm, km)),
     poly_yes_token_id |-> pm.yes_token_id,
     kalshi_ticker |-> km.ticker]

\* the body of the two loops for one pair: the opportunities it appends
ScanPair(pm, km, mc, u, hasCfg, cfgPct, threshold) ==
    IF ~QuestionSimilarity(pm.question, km.title) THEN <<>>
    ELSE IF ~TotalCostBelowOne(pm, km) THEN <<>>
    ELSE IF ~ProfitAtLeast(ProfitPct(TotalCost(pm, km)), threshold) THEN <<>>
    ELSE LET size == GetSafePositionSize(mc, u, hasCfg, cfgPct, NominalSize, NoPct)
         IN  IF size > 0 THEN <<ScanOpportunity(pm, km, size)>> ELSE <<>>

\* OpportunityScanner._scan_pm_poly_kalshi: for pm in poly_markets, for km in
\* kalshi_markets, in that order
RECURSIVE ScanFrom(_, _, _, _, _, _, _, _, _)
ScanFrom(pms, kms, i, j, mc, u, hasCfg, cfgPct, threshold) ==
    IF i > Len(pms) THEN <<>>
    ELSE IF j > Len(kms) THEN ScanFrom(pms, kms, i + 1, 1, mc, u, hasCfg, cfgPct, threshold)
    ELSE ScanPair(pms[i], kms[j], mc, u, hasCfg, cfgPct, threshold)
         \o ScanFrom(pms, kms, i, j + 1, mc, u, hasCfg, cfgPct, threshold)

ScanPmPolyKalshi(pms, kms, mc, u, hasCfg, cfgPct, threshold) ==
    ScanFrom(pms, kms, 1, 1, mc, u, hasCfg, cfgPct, threshold)

(* MatchSpec: _question_similarity applied to any two of these texts: empty, only *)
(* stopwords or short tokens, differing in case and punctuation, joined by "-" or  *)
(* "_", and sharing one token of five or of six                                    *)
MatchTexts == {<<>>,
               <<"t", "h", "e">>,
               <<"a", "b">>,
               <<"t", "h", "e", " ", "a", "t", " ", "a", "b">>,
               <<"f", "e", "d", " ", "c", "u", "t">>,
               <<"F", "e", "d", " ", "C", "u", "t", "?">>,
               <<"f", "e", "d", "-", "c", "u", "t">>,
               <<"f", "e", "d", "_", "c", "u", "t">>,
               <<"b", "t", "c", " ", "u", "p">>,
               <<"f", "e", "d", " ", "b", "t", "c", " ", "e", "t", "h", " ", "s", "o", "l", " ", "a", "d", "a">>,
               <<"f", "e", "d", " ", "b", "t", "c", " ", "e", "t", "h", " ", "s", "o", "l", " ", "a", "d", "a", " ", "d", "o", "t">>}

\* _question_similarity(q1, q2), its arguments and return value recorded
MatchCall(q1, q2) ==
    /\ call' = [op |-> "match", q1 |-> q1, q2 |-> q2, ret |-> QuestionSimilarity(q1, q2)]
    /\ UNCHANGED <<guardVars, cfgVars, execVars, portVars, pending, alerts>>

MatchNext == \E q1 \in MatchTexts, q2 \in MatchTexts : MatchCall(q1, q2)

MatchSpec == GuardInit /\ [][MatchNext]_vars

-----------------------------------------------------------------------------
(* The venue parsers: prices in whole cents, 100 being 1.0 *)

\* an order book side as the parser reads it: the price_cents of its [price_cents,
\* qty] levels, ascending, or empty (also for a missing or null side)
BookPrices == {1, 40, 60, 99}
BookSides  == {<<>>} \cup {<<c>> : c \in BookPrices}
                    \cup {<<c1, c2>> : <<c1, c2>> \in {r \in BookPrices \X BookPrices : r[1] < r[2]}}
\* last_price as _parse_orderbook_prices receives it
LastPrices == {1, 2, 50, 98, 99}

\* kalshi_fetcher._parse_orderbook_prices(orderbook, last_price)
ParseOrderbookPrices(yes_arr, no_arr, last_price) ==
    LET yes_bid0 == last_price - 2
        yes_ask0 == last_price + 2
        no_bid0  == 100 - yes_ask0
        yes_bid  == IF yes_arr # <<>> THEN yes_arr[Len(yes_arr)] ELSE yes_bid0
        no_bid   == IF no_arr # <<>> THEN no_arr[Len(no_arr)] ELSE no_bid0
        yes_ask  == IF no_arr # <<>> THEN 100 - no_bid ELSE yes_ask0
        no_ask   == 100 - yes_bid
    IN  [yes_bid |-> yes_bid, yes_ask |-> yes_ask, no_bid |-> no_bid, no_ask |-> no_ask]

\* bestBid / bestAsk of a Gamma market: absent, or a price
NoPrice    == [some |-> FALSE, v |-> 0]
BestPrices == {NoPrice} \cup {[some |-> TRUE, v |-> c] : c \in {0, 40, 60, 100}}
\* (yes_price, no_price) as _parse_outcome_prices returns them; (50, 50) is its
\* default
OutcomePrices == {<<50, 50>>, <<0, 100>>, <<100, 0>>, <<60, 40>>, <<50, 40>>}

\* the prices PolymarketFetcher.fetch_markets gives a market (lines 79-91)
PolyPrices(best_bid, best_ask, outcome) ==
    IF best_bid.some /\ best_ask.some
    THEN [yes_bid |-> best_bid.v, yes_ask |-> best_ask.v,
          no_bid |-> 100 - best_ask.v, no_ask |-> 100 - best_bid.v]
    ELSE [yes_bid |-> outcome[1] - 1, yes_ask |-> outcome[1] + 1,
          no_bid |-> outcome[2] - 1, no_ask |-> outcome[2] + 1]

\* the parsers applied to an order book or a Gamma market, the prices of the market
\* record they build recorded
ParseKalshiCall(yes_arr, no_arr, last_price) ==
    /\ call' = [op |-> "parse", venue |-> "kalshi", yes |-> yes_arr, no |-> no_arr,
                last |-> last_price,
                ret |-> ParseOrderbookPrices(yes_arr, no_arr, last_price)]
    /\ UNCHANGED <<guardVars, cfgVars, execVars, portVars, pending, alerts>>

ParsePolyCall(best_bid, best_ask, outcome) ==
    /\ call' = [op |-> "parse", venue |-> "polymarket", bid |-> best_bid,
                ask |-> best_ask, outcome |-> outcome,
                ret |-> PolyPrices(best_bid, best_ask, outcome)]
    /\ UNCHANGED <<guardVars, cfgVars, execVars, portVars, pending, alerts>>

ParseNext ==
    \/ \E yes_arr \in BookSides, no_arr \in BookSides, last_price \in LastPrices :
          ParseKalshiCall(yes_arr, no_arr, last_price)
    \/ \E best_bid \in BestPrices, best_ask \in BestPrices, outcome \in OutcomePrices :
          ParsePolyCall(best_bid, best_ask, outcome)

(* ParseSpec: the two parsers applied to empty, one-sided, two-sided and crossed   *)
(* books, to last prices at the middle and near the ends of the range, and to      *)
(* Gamma markets with and without best bid and ask                                 *)
ParseInit ==
    /\ maxCapital = DefaultCapitalUsd
    /\ used = 0
    /\ guardHasConfig = TRUE
    /\ maxPositionPct = DefaultMaxPositionPct
    /\ mode \in {"sim", "live"}
    /\ creds = CredsAllSet
    /\ clobInstalled = TRUE
    /\ minProfitPct = DefaultMinProfitPct
    /\ llmConfigured = FALSE
    /\ Quiescent

ParseSpec == ParseInit /\ [][ParseNext]_vars

-----------------------------------------------------------------------------
(* AICrew *)

\* validate_opportunity approving nothing when no model is configured
ValidateOpportunityNeedsModel(o, configured, threshold, llm) ==
    configured /\ llm = "yes"

\* validate_opportunity with a strict rule-based comparison
ValidateOpportunityStrict(o, configured, threshold, llm) ==
    IF ~configured \/ llm = "fault"
    THEN ~ProfitAtLeast([num |-> 0 - o.profit.num, den |-> o.profit.den], 0 - threshold)
    ELSE llm = "yes"

\* validate_opportunity accepting whenever the model call raises
ValidateOpportunityAcceptsOnFault(o, configured, threshold, llm) ==
    IF ~configured THEN ProfitAtLeast(o.profit, threshold)
    ELSE IF llm = "fault" THEN TRUE
    ELSE llm = "yes"

\* AICrew.validate_opportunity; llm is what the model call does when a model is
\* configured: "yes" | "no" (its answer holds YES or not) | "fault" (it raises)
ValidateOpportunity(o, configured, threshold, llm) ==
    IF ~configured THEN ProfitAtLeast(o.profit, threshold)
    ELSE IF llm = "fault" THEN ProfitAtLeast(o.profit, threshold)
    ELSE llm = "yes"

\* AICrew.get_safe_size
GetSafeSize(o, mc, u, hasCfg, cfgPct) ==
    GetSafePositionSize(mc, u, hasCfg, cfgPct, o.size_usd, [some |-> TRUE, v |-> cfgPct])

-----------------------------------------------------------------------------
(* run_scan_cycle under the periodic driver: one cycle at a time, task 1 running *)
(* its execute calls; closes happen between cycles                               *)

\* the lists of at most n records over S
RECURSIVE SeqsUpTo(_, _)
SeqsUpTo(S, n) ==
    IF n = 0 THEN {<<>>}
    ELSE SeqsUpTo(S, n - 1) \cup
         {Append(q, x) : q \in {r \in SeqsUpTo(S, n - 1) : Len(r) = n - 1}, x \in S}

\* the market records a fetch may return: PolymarketMarket(question, yes_ask,
\* yes_token_id set or empty) and KalshiMarket(title, no_ask, ticker set)
PolyMarkets   == [question : {<<"F", "e", "d", " ", "c", "u", "t", "?">>,
                               <<"b", "t", "c", " ", "u", "p">>},
                  yes_ask : {450}, yes_token_id : {TRUE}]
KalshiMarkets == [title : {<<"t", "h", "e", " ", "f", "e", "d", " ", "c", "u", "t">>}, no_ask : {520, 550},
                  ticker : {TRUE}]
\* what the two fetches of a cycle may return
PolyFetches   == SeqsUpTo(PolyMarkets, MaxMarkets)
KalshiFetches == {<<>>} \cup {<<km>> : km \in KalshiMarkets}

\* no cycle is running
CycleIdle == pc[1] = "idle" /\ pending = <<>>

\* run_scan_cycle from its entry to the start of its loop (lines 42-47):
\* opps = await scanner.scan_all()
StartCycleBody(poly_mkts, kalshi_mkts) ==
    /\ CycleIdle
    /\ orderSeq <= MaxOrders
    /\ pending' = ScanPmPolyKalshi(poly_mkts, kalshi_mkts, maxCapital, used,
                                    guardHasConfig, maxPositionPct, minProfitPct)
    /\ Len(positions) + Len(pending') <= MaxPositions
    /\ UNCHANGED <<guardVars, cfgVars, execVars, portVars, alerts>>

StartCycle(poly_mkts, kalshi_mkts) ==
    /\ StartCycleBody(poly_mkts, kalshi_mkts)
    /\ UNCHANGED call

\* fetch_markets: the request and the parsing of its answer end normally or by a
\* fault, with the markets in parsed appended by then; the except handler logs the
\* fault and the method returns the list as it stands (polymarket_fetcher.py
\* 106-108, kalshi_fetcher.py 115-117)
FetchMarkets(fetch) == fetch.parsed

\* the ways a venue's fetch may end
PolyFetchEnds   == [fault : BOOLEAN, parsed : PolyFetches]
KalshiFetchEnds == [fault : BOOLEAN, parsed : KalshiFetches]

\* run_scan_cycle from its entry to the start of its loop, with the way each fetch
\* of scan_all ended recorded
StartCycleFetched(poly_fetch, kalshi_fetch) ==
    /\ StartCycleBody(FetchMarkets(poly_fetch), FetchMarkets(kalshi_fetch))
    /\ call' = [op |-> "scan_all", poly |-> poly_fetch, kalshi |-> kalshi_fetch,
                usedBefore |-> used, positionsBefore |-> positions]

\* one turn of the loop over opps (lines 48-56), up to the first await of execute
\* or to execute's return
HandleOpp(llm) ==
    /\ pc[1] = "idle"
    /\ pending # <<>>
    /\ pending' = Tail(pending)
    /\ LET o == Head(pending)
           safe_size == GetSafeSize(o, maxCapital, used, guardHasConfig, maxPositionPct)
       IN  IF ~ValidateOpportunity(o, llmConfigured, minProfitPct, llm)
           THEN UNCHANGED <<used, taskVars, ret, positions, alerts>>
           ELSE IF safe_size <= 0
           THEN UNCHANGED <<used, taskVars, ret, positions, alerts>>
           ELSE ExecuteBegin(1, [o EXCEPT !.size_usd = safe_size])
    /\ UNCHANGED <<maxCapital, guardHasConfig, cfgVars, call, orderSeq, realizedPnl,
                   feesPaid>>

\* what a fault does to task p and to the cycle's loop: the call in flight and the
\* opportunities not yet handled are abandoned; at is where the fault was raised and
\* then is the position the task is left at
Abandon(p, at, then) ==
    /\ pc' = [pc EXCEPT ![p] = then]
    /\ opp' = [opp EXCEPT ![p] = NoOpp]
    /\ orderIds' = [orderIds EXCEPT ![p] = <<>>]
    /\ sent' = [sent EXCEPT ![p] = NoSent]
    /\ legs' = [legs EXCEPT ![p] = NoLegs]
    /\ usedAtAdmission' = [usedAtAdmission EXCEPT ![p] = 0]
    /\ pending' = <<>>
    /\ call' = [op |-> "cycle_fault", at |-> at,
                parity |-> IF call.op = "cycle_fault" THEN 1 - call.parity ELSE 0]
    /\ UNCHANGED <<guardVars, cfgVars, orderSeq, ret, portVars>>

\* run_scan_cycle without its except clause: the fault reaches the driver
HandleFaultReraises(at) ==
    /\ Abandon(1, at, "raised")
    /\ UNCHANGED alerts

\* run_scan_cycle's except Exception clause (lines 73-80): the fault is logged, the
\* "Scan cycle error" alert is sent and the cycle returns normally
HandleFault(at) ==
    /\ Abandon(1, at, "idle")
    /\ alerts' = alerts \cup {"cycle_error"}

\* a fault raised inside the try block of run_scan_cycle: by scan_all, by the
\* validation, sizing or start of execute of an opportunity, or by execute after
\* place_kalshi_order returned (an answer that is no dict, executor.py 136-137)
CycleFault(at) ==
    /\ \/ at = "scan" /\ CycleIdle
       \/ at = "loop" /\ pc[1] = "idle" /\ pending # <<>>
       \/ at = "kalshi" /\ pc[1] = "kalshi"
    /\ HandleFault(at)

CycleInit ==
    /\ maxCapital \in CapitalValues \cup {DefaultCapitalUsd}
    /\ used = 0
    /\ guardHasConfig = TRUE
    /\ maxPositionPct \in PctValues
    /\ mode \in {"sim", "live"}
    /\ creds = CredsAllSet
    /\ clobInstalled = TRUE
    /\ minProfitPct \in {DefaultMinProfitPct}
    /\ llmConfigured \in BOOLEAN
    /\ Quiescent

\* a venue either hands out an identifier or fails; responses without an identifier
\* are the subject of SeqSpec
CycleNext ==
    \/ \E poly_mkts \in PolyFetches, kalshi_mkts \in KalshiFetches :
          StartCycle(poly_mkts, kalshi_mkts)
    \/ \E llm \in {"yes", "no", "fault"} : HandleOpp(llm)
    \/ \E outcome \in {"id", "error"} : PolyOrderReturns(1, outcome)
    \/ \E outcome \in {"id", "failed"} : KalshiOrderReturns(1, outcome)
    \/ \E pos_id \in PositionIds : CycleIdle /\ ClosePosition(pos_id, 5, 1)

CycleSpec == CycleInit /\ [][CycleNext]_vars

(* CycleLiveSpec: CycleSpec under the interval scheduler, which keeps firing cycles, *)
(* each venue call returning and each cycle running to its end                    *)
CycleLiveSpec == CycleInit /\ [][CycleNext]_vars /\ WF_vars(CycleNext)

(* ScanSpec: _scan_pm_poly_kalshi applied to any two market lists, on a funded      *)
(* ledger that allocate calls have brought to any level, for a threshold below, at and above  *)
(* the pairs' profits. The pairs cost 0.94372, 0.97381 (profit 2.6894 percent),   *)
(* exactly 1.0 and 1.03009.                                                       *)
ScanThresholds == {0 - 100, 0, DefaultMinProfitPct, 268, 269}
ScanPolyMarkets   == [question : {<<"F", "e", "d", " ", "c", "u", "t", "?">>}, yes_ask : {450, 506}, yes_token_id : {TRUE}]
                     \cup [question : {<<"b", "t", "c", " ", "u", "p">>}, yes_ask : {450}, yes_token_id : {TRUE}]
ScanKalshiMarkets == [title : {<<"t", "h", "e", " ", "f", "e", "d", " ", "c", "u", "t">>}, no_ask : {490, 520}, ticker : {TRUE}]

\* scanner._scan_pm_poly_kalshi(poly_mkts, kalshi_mkts), its arguments and return
\* value recorded
ScanCall(poly_mkts, kalshi_mkts) ==
    /\ call' = [op |-> "scan", poly |-> poly_mkts, kalshi |-> kalshi_mkts,
                ret |-> ScanPmPolyKalshi(poly_mkts, kalshi_mkts, maxCapital, used,
                                         guardHasConfig, maxPositionPct, minProfitPct),
                usedBefore |-> used]
    /\ UNCHANGED <<guardVars, cfgVars, execVars, portVars, pending, alerts>>

ScanInit ==
    /\ maxCapital \in CapitalValues \ {0}
    /\ used = 0
    /\ guardHasConfig = TRUE
    /\ maxPositionPct = DefaultMaxPositionPct
    /\ mode = "sim"
    /\ creds = CredsAllSet
    /\ clobInstalled = TRUE
    /\ minProfitPct \in ScanThresholds
    /\ llmConfigured = FALSE
    /\ Quiescent

ScanNext ==
    \/ \E amount \in {a \in Amounts : a > 0} : GuardAllocate(amount)
    \/ \E poly_mkts \in SeqsUpTo(ScanPolyMarkets, MaxMarkets),
          kalshi_mkts \in {<<>>} \cup {<<km>> : km \in ScanKalshiMarkets} :
          ScanCall(poly_mkts, kalshi_mkts)

ScanSpec == ScanInit /\ [][ScanNext]_vars

(* ValidateSpec: validate_opportunity applied to opportunities whose profit lies    *)
(* below, between and above the thresholds, with and without a model configured,   *)
(* the model call answering or raising                                             *)
ValidateOpps ==
    {ScanOpportunity(pm, km, NominalSize) : pm \in ScanPolyMarkets, km \in ScanKalshiMarkets}

\* ai_crew.validate_opportunity(o), its argument, what the model call did and the
\* return value recorded
ValidateCall(o, llm) ==
    /\ call' = [op |-> "validate", opp |-> o, llm |-> llm,
                ret |-> ValidateOpportunity(o, llmConfigured, minProfitPct, llm)]
    /\ UNCHANGED <<guardVars, cfgVars, execVars, portVars, pending, alerts>>

ValidateInit ==
    /\ maxCapital \in CapitalValues
    /\ used = 0
    /\ guardHasConfig = TRUE
    /\ maxPositionPct = DefaultMaxPositionPct
    /\ mode = "sim"
    /\ creds = CredsAllSet
    /\ clobInstalled = TRUE
    /\ minProfitPct \in ScanThresholds
    /\ llmConfigured \in BOOLEAN
    /\ Quiescent

ValidateNext == \E o \in ValidateOpps, llm \in {"yes", "no", "fault"} : ValidateCall(o, llm)

ValidateSpec == ValidateInit /\ [][ValidateNext]_vars

(* FaultSpec: the scan cycles of CycleSpec with faults raised while scanning, in   *)
(* the loop and in execute, and with execute called between cycles for sizes the   *)
(* guard rejects                                                                   *)
FaultInit ==
    /\ maxCapital \in CapitalValues \ {0}
    /\ used = 0
    /\ guardHasConfig = TRUE
    /\ maxPositionPct = DefaultMaxPositionPct
    /\ mode \in {"sim", "live"}
    /\ creds = CredsAllSet
    /\ clobInstalled = TRUE
    /\ minProfitPct = DefaultMinProfitPct
    /\ llmConfigured \in BOOLEAN
    /\ Quiescent

FaultNext ==
    \/ \E poly_mkts \in PolyFetches, kalshi_mkts \in KalshiFetches :
          StartCycle(poly_mkts, kalshi_mkts)
    \/ \E llm \in {"yes", "no", "fault"} : HandleOpp(llm)
    \/ \E outcome \in {"id", "error"} : PolyOrderReturns(1, outcome)
    \/ \E outcome \in {"id", "failed"} : KalshiOrderReturns(1, outcome)
    \/ \E at \in {"scan", "loop", "kalshi"} : CycleFault(at)
    \/ \E o \in FullOpps :
          CycleIdle /\ ~CanAllocate(maxCapital, used, o.size_usd) /\ ExecuteCall(1, o)

FaultSpec == FaultInit /\ [][FaultNext]_vars

(* PipelineSpec: scan applied to lists of matching markets at thresholds below, at *)
(* and above the pairs' profits, and validate_opportunity applied to the opportunities *)
(* that scan returned, with no model configured                                    *)
PipelinePolyMarkets == [question : {<<"F", "e", "d", " ", "c", "u", "t", "?">>}, yes_ask : {450, 506}, yes_token_id : {TRUE}]

PipelineInit ==
    /\ maxCapital \in CapitalValues \ {0}
    /\ used = 0
    /\ guardHasConfig = TRUE
    /\ maxPositionPct = DefaultMaxPositionPct
    /\ mode = "sim"
    /\ creds = CredsAllSet
    /\ clobInstalled = TRUE
    /\ minProfitPct \in ScanThresholds
    /\ llmConfigured = FALSE
    /\ Quiescent

PipelineNext ==
    \/ \E poly_mkts \in SeqsUpTo(PipelinePolyMarkets, MaxMarkets),
          kalshi_mkts \in {<<>>} \cup {<<km>> : km \in ScanKalshiMarkets} :
          ScanCall(poly_mkts, kalshi_mkts)
    \/ \E llm \in {"yes", "no", "fault"} :
          /\ call.op = "scan"
          /\ \E k \in 1..Len(call.ret) : ValidateCall(call.ret[k], llm)

PipelineSpec == PipelineInit /\ [][PipelineNext]_vars

(* PortfolioSpec: the scan cycles of CycleSpec, with the close_position calls made *)
(* between cycles recorded                                                         *)
PortfolioNext ==
    \/ \E poly_mkts \in PolyFetches, kalshi_mkts \in KalshiFetches :
          StartCycle(poly_mkts, kalshi_mkts)
    \/ \E llm \in {"yes", "no", "fault"} : HandleOpp(llm)
    \/ \E outcome \in {"id", "error"} : PolyOrderReturns(1, outcome)
    \/ \E outcome \in {"id", "failed"} : KalshiOrderReturns(1, outcome)
    \/ \E pos_id \in PositionIds \cup {"unknown"} :
          CycleIdle /\ ClosePositionCall(pos_id, 5, 1)

PortfolioSpec == CycleInit /\ [][PortfolioNext]_vars

(* SnapshotSpec: the scan cycles of CycleSpec, close_position calls with gains and *)
(* losses, with and without fees, and get_snapshot calls at any point              *)
CloseArgs == {[pnl |-> 0 - 3, fees |-> 1], [pnl |-> 5, fees |-> 0]}

SnapshotInit ==
    /\ maxCapital = DefaultCapitalUsd
    /\ used = 0
    /\ guardHasConfig = TRUE
    /\ maxPositionPct = DefaultMaxPositionPct
    /\ mode \in {"sim", "live"}
    /\ creds = CredsAllSet
    /\ clobInstalled = TRUE
    /\ minProfitPct = DefaultMinProfitPct
    /\ llmConfigured = FALSE
    /\ Quiescent

SnapshotNext ==
    \/ \E poly_mkts \in PolyFetches, kalshi_mkts \in KalshiFetches :
          StartCycle(poly_mkts, kalshi_mkts)
    \/ \E llm \in {"yes", "no", "fault"} : HandleOpp(llm)
    \/ \E outcome \in {"id", "error"} : PolyOrderReturns(1, outcome)
    \/ \E outcome \in {"id", "failed"} : KalshiOrderReturns(1, outcome)
    \/ \E pos_id \in PositionIds \cup {"unknown"}, args \in CloseArgs :
          CycleIdle /\ ClosePositionCall(pos_id, args.pnl, args.fees)
    \/ GetSnapshotCall

SnapshotSpec == SnapshotInit /\ [][SnapshotNext]_vars

(* FetchSpec: the scan cycles of CycleSpec, each venue's fetch ending normally or by *)
(* a fault, before or after markets were parsed                                    *)
FetchNext ==
    \/ \E poly_fetch \in PolyFetchEnds, kalshi_fetch \in KalshiFetchEnds :
          StartCycleFetched(poly_fetch, kalshi_fetch)
    \/ \E llm \in {"yes", "no", "fault"} : HandleOpp(llm)
    \/ \E outcome \in {"id", "error"} : PolyOrderReturns(1, outcome)
    \/ \E outcome \in {"id", "failed"} : KalshiOrderReturns(1, outcome)

FetchSpec == SnapshotInit /\ [][FetchNext]_vars

-----------------------------------------------------------------------------
(* Claims about the capital guard, checked under GuardSpec *)

\* C1: after every allocate or release call, with any amount (positive, zero or
\* negative), 0 <= used <= maxCapital.
C1_UsedWithinBounds == 0 <= used /\ used <= maxCapital

\* C2: allocate(amount) returns false and leaves used unchanged exactly when
\* amount <= 0 or used + amount > maxCapital; otherwise it returns true and used
\* has grown by exactly amount.
C2_AllocateContract ==
    call.op = "allocate" =>
        IF call.amount <= 0 \/ call.usedBefore + call.amount > maxCapital
        THEN ~call.ok /\ used = call.usedBefore
        ELSE call.ok /\ used = call.usedBefore + call.amount

\* an allocate of exactly the free capital, on a ledger already in use, was accepted
C2_Witness ==
    /\ call.op = "allocate"
    /\ call.usedBefore > 0
    /\ call.amount = maxCapital - call.usedBefore
    /\ call.ok
    /\ used = maxCapital

\* C9: with max_pct supplied (>= 0, 0 included), get_safe_position_size returns
\* exactly min(suggested, maxCapital * maxPct, freeCapital), with or without a config.
C9_SafeSizeIsMin ==
    (call.op = "safe_size" /\ call.pct.some) =>
        call.ret = Min3(call.amount, (maxCapital * call.pct.v) \div 100,
                        FreeCapital(maxCapital, used))

\* C10: get_safe_position_size never returns more than
\* min(suggested, maxCapital * pct, freeCapital) and never a negative value; pct is
\* the supplied max_pct, or the configured (else the default) percentage when none
\* is supplied.
C10_SafeSizeBounded ==
    call.op = "safe_size" =>
        LET pct == IF call.pct.some THEN call.pct.v
                   ELSE IF guardHasConfig THEN maxPositionPct
                   ELSE DefaultMaxPositionPct
        IN  /\ call.ret <= Min3(call.amount, (maxCapital * pct) \div 100,
                                FreeCapital(maxCapital, used))
            /\ call.ret >= 0

\* C11: for every amount >= 0, release(amount) sets used to max(0, used - amount):
\* an over-release leaves used = 0, never negative, and a release on used = 0
\* changes nothing.
C11_ReleaseFlooredAtZero ==
    (call.op = "release" /\ call.amount >= 0) =>
        /\ used = Max(0, call.usedBefore - call.amount)
        /\ used >= 0
        /\ (call.amount > call.usedBefore => used = 0)
        /\ (call.usedBefore = 0 => used = 0)

\* more than the allocated amount was released
C11_Witness ==
    /\ call.op = "release"
    /\ call.usedBefore > 0
    /\ call.amount > call.usedBefore
    /\ used = 0

\* C12: can_allocate(amount) changes neither used nor maxCapital, and in every
\* ledger state and for every amount it returns what allocate(amount) would return
\* in that state.
C12_CanAllocateAgreesWithAllocate ==
    [][call'.op = "can_allocate" =>
          /\ used' = used
          /\ maxCapital' = maxCapital
          /\ call'.ok = Allocate(maxCapital, used, call'.amount).ret]_vars

\* can_allocate accepted exactly the free capital of a ledger in use, and left it
\* as it was
C12_Witness ==
    /\ call.op = "can_allocate"
    /\ call.ok
    /\ call.usedBefore > 0
    /\ call.amount = maxCapital - call.usedBefore
    /\ used = call.usedBefore

-----------------------------------------------------------------------------
(* Claims about the executor *)

Returned == ret.task # 0

\* C3 (Spec): whenever execute returns success, its own guard.allocate call raised
\* used by exactly the result's size_usd, also when calls interleave.
C3_SuccessDebitsSize ==
    (Returned /\ ret.success) => ret.debit = ret.size_usd

\* C4 (Spec): under any interleaving of execute calls and closes sharing the guard,
\* used <= maxCapital.
C4_UsedAtMostMax == used <= maxCapital

\* a call admitted against a value of used that another call has since raised
\* reached guard.allocate, which refused it
C4_Witness ==
    /\ Returned
    /\ ret.allocCalled
    /\ ret.usedAtAdmission + ret.size_usd <= maxCapital
    /\ ret.debit = 0
    /\ used > ret.usedAtAdmission

\* C5 (SeqSpec): live mode, leg 1 returned a response and leg 2 then failed: the
\* result is a failure whose order-id list holds leg 1's identifier (the placeholder
\* "poly" when the response carried none), and used is as it was at the call's start.
C5_PartialFillReported ==
    (Returned /\ ret.legs.poly \in {"id", "noid"} /\ ret.legs.kalshi = "failed") =>
        /\ ~ret.success
        /\ ret.order_ids = <<IF ret.legs.poly = "id" THEN ret.legs.polyId ELSE "poly">>
        /\ ~ret.allocCalled
        /\ ret.usedAfter = ret.usedAtAdmission

\* leg 1 reported an identifier, leg 2 failed, on a ledger already in use
C5_Witness ==
    /\ Returned
    /\ mode = "live"
    /\ ret.legs.poly = "id"
    /\ ret.legs.kalshi = "failed"
    /\ ret.sent = [poly |-> TRUE, kalshi |-> TRUE]
    /\ ret.usedAtAdmission > 0

\* C6 (SeqSpec): in live mode guard.allocate is called only after both legs have
\* reported an order identifier, and every call that returns a failure leaves used
\* as it was at the call's start.
C6_AllocateOnlyAfterBothIds ==
    Returned =>
        /\ (mode = "live" /\ ret.allocCalled) =>
               (ret.legs.poly = "id" /\ ret.legs.kalshi = "id")
        /\ ~ret.success => (~ret.allocCalled /\ ret.usedAfter = ret.usedAtAdmission)

\* C7 (SeqSpec): when can_allocate is false at the start of execute (size_usd <= 0
\* or used + size_usd > maxCapital), execute returns a failure at once, in sim and
\* in live mode: no placement call is made and used is unchanged.
C7_RejectedAtAdmission ==
    /\ \A p \in Tasks : pc[p] # "idle" =>
           (opp[p].size_usd > 0 /\ usedAtAdmission[p] + opp[p].size_usd <= maxCapital)
    /\ (Returned /\ (ret.size_usd <= 0
                      \/ ret.usedAtAdmission + ret.size_usd > maxCapital)) =>
           /\ ~ret.success
           /\ ret.message = "Insufficient capital allocation"
           /\ ret.order_ids = <<>>
           /\ ret.sent = NoSent
           /\ ret.legs = NoLegs
           /\ ~ret.allocCalled
           /\ ret.usedAfter = ret.usedAtAdmission

\* a call of positive size was refused for the ceiling, in live mode with both
\* venues configured, on a ledger already in use
C7_Witness ==
    /\ Returned
    /\ mode = "live"
    /\ creds = CredsAllSet
    /\ ret.size_usd > 0
    /\ ret.usedAtAdmission > 0
    /\ ret.usedAtAdmission + ret.size_usd > maxCapital
    /\ ret.opp.type = "pm_poly_kalshi"
    /\ ret.opp.poly_yes_token_id
    /\ ret.opp.kalshi_ticker

\* the opportunity lacks a venue identifier; a required credential is unset
MissingIdentifier(o) == ~o.poly_yes_token_id \/ ~o.kalshi_ticker
MissingCredential ==
    ~creds.poly_private_key \/ ~creds.kalshi_api_key \/ ~creds.kalshi_api_secret

\* C20 (SeqSpec): in live mode, when the opportunity lacks the Polymarket token id or
\* the Kalshi ticker, or a required credential is unset, execute returns a failure
\* with an empty order-id list, having placed no order and leaving used unchanged;
\* the identifier check is made before the credential check.
C20_MissingIdsOrCreds ==
    mode = "live" =>
        /\ \A p \in Tasks : pc[p] # "idle" =>
               (~MissingIdentifier(opp[p]) /\ ~MissingCredential)
        /\ (Returned /\ (MissingIdentifier(ret.opp) \/ MissingCredential)) =>
               /\ ~ret.success
               /\ ret.order_ids = <<>>
               /\ ret.sent = NoSent
               /\ ret.legs = NoLegs
               /\ ~ret.allocCalled
               /\ ret.usedAfter = ret.usedAtAdmission
               /\ (CanAllocate(maxCapital, ret.usedAtAdmission, ret.size_usd)
                     /\ ret.opp.type = "pm_poly_kalshi") =>
                      ret.message = IF MissingIdentifier(ret.opp)
                                       THEN "Missing poly token or kalshi ticker"
                                       ELSE "PM arb requires Poly + Kalshi credentials"

\* an admitted live call lacking both an identifier and a credential was refused for
\* the identifier
C20_Witness ==
    /\ mode = "live"
    /\ Returned
    /\ ret.opp.type = "pm_poly_kalshi"
    /\ ret.size_usd > 0
    /\ CanAllocate(maxCapital, ret.usedAtAdmission, ret.size_usd)
    /\ ~ret.opp.kalshi_ticker
    /\ ~creds.kalshi_api_secret
    /\ ret.message = "Missing poly token or kalshi ticker"

\* C16 (SeqSpec): in simulation mode, execute on an opportunity that passes
\* admission places no order on any venue, raises used by exactly size_usd and
\* returns success, whatever venue identifiers or credentials are missing.
C16_SimulationShortCircuit ==
    mode = "sim" =>
        /\ \A p \in Tasks : pc[p] = "idle"
        /\ orderSeq = 0
        /\ (Returned /\ ret.size_usd > 0
                     /\ ret.usedAtAdmission + ret.size_usd <= maxCapital) =>
               /\ ret.success
               /\ ret.sent = NoSent
               /\ ret.legs = NoLegs
               /\ ret.allocCalled
               /\ ret.debit = ret.size_usd
               /\ ret.usedAfter = ret.usedAtAdmission + ret.size_usd

\* a simulated execution succeeded on a ledger in use, for an opportunity without its
\* Polymarket token and a configuration without the Kalshi key
C16_Witness ==
    /\ mode = "sim"
    /\ Returned
    /\ ret.success
    /\ ret.usedAtAdmission > 0
    /\ ret.opp.type = "pm_poly_kalshi"
    /\ ~ret.opp.poly_yes_token_id
    /\ ~creds.kalshi_api_key
    /\ used = ret.usedAtAdmission + ret.size_usd

\* C17 (SeqSpec): in simulation mode a successful execute returns one synthetic order
\* identifier per leg: two identifiers for the two-leg cross-venue opportunity.
C17_SimulationIdPerLeg ==
    (mode = "sim" /\ Returned /\ ret.success /\ ret.opp.type = "pm_poly_kalshi") =>
        Len(ret.order_ids) = 2

-----------------------------------------------------------------------------
(* Claims about the scan cycle (CycleSpec) *)

\* C8: after any sequence of scan cycles, every position recorded in the portfolio
\* has a size of at most maxCapital * maxPositionPctOfCapital, and when its
\* opportunity was executed the size did not exceed the guard's free capital.
C8_PositionsWithinLimits ==
    /\ \A i \in 1..Len(positions) :
           positions[i].size_usd * 100 <= maxCapital * maxPositionPct
    /\ (Returned /\ ret.success) =>
           /\ ret.size_usd <= FreeCapital(maxCapital, ret.usedAtAdmission)
           /\ ret.size_usd <= FreeCapital(maxCapital, ret.usedAfter - ret.debit)

\* a second position was recorded whose size the free capital limited, below the
\* cap by percentage
C8_Witness ==
    /\ Len(positions) >= 2
    /\ pending = <<>>
    /\ Returned
    /\ ret.success
    /\ ret.usedAtAdmission > 0
    /\ ret.size_usd = FreeCapital(maxCapital, ret.usedAtAdmission)
    /\ ret.size_usd * 100 < maxCapital * maxPositionPct
    /\ positions[Len(positions)].size_usd = ret.size_usd

\* C18: end to end: from used = 0 and an empty portfolio, with maxCapital = 5000,
\* maxPct = 0.2, simulation mode and the rule-based validator, a cycle whose scan
\* yields exactly one matched pair with a profit that meets the threshold ends with
\* used = 1000 and exactly one position, open, of size 1000.
C18_EndToEnd ==
    [][(/\ maxCapital = DefaultCapitalUsd
        /\ maxPositionPct = DefaultMaxPositionPct
        /\ mode = "sim"
        /\ ~llmConfigured
        /\ used = 0
        /\ positions = <<>>
        /\ pc[1] = "idle"
        /\ Len(pending) = 1)
       => /\ pending' = <<>>
          /\ pc'[1] = "idle"
          /\ used' = 1000
          /\ Len(positions') = 1
          /\ positions'[1].status = "open"
          /\ positions'[1].size_usd = 1000]_vars

\* that cycle has ended: one open position of 1000 admitted on an unused ledger
C18_Witness ==
    /\ maxCapital = DefaultCapitalUsd
    /\ maxPositionPct = DefaultMaxPositionPct
    /\ mode = "sim"
    /\ ~llmConfigured
    /\ pending = <<>>
    /\ Returned
    /\ ret.success
    /\ ret.usedAtAdmission = 0
    /\ used = 1000
    /\ Len(positions) = 1
    /\ positions[1].status = "open"
    /\ positions[1].size_usd = 1000

\* an execute call has just returned a failure carrying exactly one order identifier:
\* one leg was placed, the other was not
PartialFill == Returned /\ ~ret.success /\ Len(ret.order_ids) = 1

-----------------------------------------------------------------------------
(* Claims about the portfolio (PortfolioSpec) *)

\* C13: a close_position call on an id already passed to an earlier close_position
\* call returns nothing and leaves every position's status, realizedPnl, feesPaid
\* and guard.used unchanged, for any portfolio reachable through scan cycles.
C13_SecondCloseIsNoOp ==
    (call.op = "close_position" /\ call.again) =>
        /\ ~call.found
        /\ call.after = call.before

\* the number of entries of the release log for position i
ReleaseCount(i) == Cardinality({k \in 1..Len(ReleaseLog) : ReleaseLog[k] = i})

\* C14: over the add_position and close_position calls made, each position's size is
\* released to the guard exactly once if the position is closed and never otherwise:
\* close_position calls guard.release(p.size_usd) on the call that moves p from open
\* to closed, and a call that finds no open position with the id releases nothing.
C14_ReleasedExactlyOnce ==
    /\ \A i \in 1..Len(positions) :
           ReleaseCount(i) = IF positions[i].status = "closed" THEN 1 ELSE 0
    /\ call.op = "close_position" =>
           /\ call.released.some <=> call.found
           /\ call.found =>
                  LET i == call.log[Len(call.log)]
                  IN  /\ call.before.positions[i].status = "open"
                      /\ call.before.positions[i].id = call.id
                      /\ call.after.positions[i].status = "closed"
                      /\ call.released.v = call.before.positions[i].size_usd
                      /\ call.after.used = Release(call.before.used, call.released.v)
           /\ ~call.found =>
                  /\ call.after = call.before
                  /\ \A i \in 1..Len(call.before.positions) :
                         call.before.positions[i].id = call.id =>
                             call.before.positions[i].status = "closed"

\* a position was closed and its size released, and a later close_position with its
\* id found nothing and released nothing
C14_Witness ==
    /\ call.op = "close_position"
    /\ call.again
    /\ ~call.found
    /\ ~call.released.some
    /\ Len(call.log) >= 1
    /\ \E i \in 1..Len(positions) :
           /\ positions[i].id = call.id
           /\ positions[i].status = "closed"
           /\ positions[i].size_usd > 0
           /\ ReleaseCount(i) = 1

\* C15: a position's status only moves from open to closed, at most once and never
\* back to open, and no operation removes a position: the list never shrinks, a
\* position keeps its place and its id, and a closed position stays closed.
C15_PositionLifecycle ==
    [][/\ Len(positions') >= Len(positions)
       /\ \A i \in 1..Len(positions) :
              /\ i <= Len(positions')
              /\ positions'[i].id = positions[i].id
              /\ positions'[i].size_usd = positions[i].size_usd
              /\ positions'[i].status \in {"open", "closed"}
              /\ positions[i].status = "closed" => positions'[i] = positions[i]
       /\ \A i \in (Len(positions) + 1)..Len(positions') :
              positions'[i].status = "open"]_vars

\* a position was added after an earlier one had been closed, the closed one still
\* in its place
C15_Witness ==
    /\ call.op = "close_position"
    /\ call.found
    /\ Len(positions) > Len(call.after.positions)
    /\ positions[call.log[Len(call.log)]].status = "closed"
    /\ positions[Len(positions)].status = "open"

\* C30: in live mode the Kalshi order is placed only after the Polymarket placement
\* returned an order identifier: whenever a call has sent, or is sending, its Kalshi
\* order, its Polymarket leg has yielded an identifier of the venue.
C30_KalshiOnlyAfterPolyId ==
    /\ \A p \in Tasks :
           (mode = "live" /\ pc[p] = "kalshi") =>
               (legs[p].poly = "id" /\ legs[p].polyId # "")
    /\ (mode = "live" /\ Returned /\ ret.sent.kalshi) =>
           (ret.legs.poly = "id" /\ ret.legs.polyId # "")

\* the sum of size_usd over the open positions of ps
RECURSIVE OpenSizes(_)
OpenSizes(ps) ==
    IF ps = <<>> THEN 0
    ELSE OpenSizes(Tail(ps)) + (IF Head(ps).status = "open" THEN Head(ps).size_usd ELSE 0)

\* C31: under the sequential driver (one scan cycle at a time, closes between
\* cycles), after any sequence of scan cycles and close_position calls guard.used
\* equals the sum of size_usd over the portfolio's open positions.
C31_UsedIsOpenSizes == used = OpenSizes(positions)

\* two positions were opened and one of them closed: used is the size of the other
C31_Witness ==
    /\ CycleIdle
    /\ used > 0
    /\ call.op = "close_position"
    /\ call.found
    /\ \E i, j \in 1..Len(positions) :
           positions[i].status = "closed" /\ positions[j].status = "open"

\* C32: position ids are unique within the portfolio: after any sequence of scan
\* cycles no two recorded positions share an id, so a close_position(id) call
\* designates at most one position.
C32_PositionIdsUnique ==
    \A i, j \in 1..Len(positions) : positions[i].id = positions[j].id => i = j

-----------------------------------------------------------------------------
(* Claims about the snapshot (SnapshotSpec) *)

\* the snapshot get_snapshot would return in the current state, and in the next
SnapshotNow  == GetSnapshot(positions, realizedPnl, feesPaid)
SnapshotAfter == GetSnapshot(positions', realizedPnl', feesPaid')

\* the open positions' sizeUsd * expectedProfitPct / 100, summed over the indexes of
\* the open positions
RECURSIVE SumOver(_, _)
SumOver(ps, I) ==
    IF I = {} THEN Money(0)
    ELSE LET i == CHOOSE k \in I : TRUE
         IN  AddMoney(SumOver(ps, I \ {i}), ExpectedProfit(ps[i]))

OpenIndexes(ps) == {i \in 1..Len(ps) : ps[i].status = "open"}

\* this step is a close_position call that took effect
EffectiveClose == call' # call /\ call'.op = "close_position" /\ call'.found

\* C26: get_snapshot reports realizedPnl equal to the sum of the pnl arguments of
\* the closes that took effect and feesPaid equal to the sum of their fees (both
\* start at zero and grow by exactly the arguments of each effective close, by
\* nothing otherwise), unrealizedPnl equal to the sum of sizeUsd*expectedProfitPct/100
\* over the positions still open, and totalPnl = realizedPnl + unrealizedPnl -
\* feesPaid; a get_snapshot call changes no position, aggregate or ledger value.
C26_SnapshotAggregates ==
    /\ SnapshotNow.realized_pnl = 0
    /\ SnapshotNow.fees_paid = 0
    /\ [][/\ SnapshotAfter.realized_pnl =
                 SnapshotNow.realized_pnl + (IF EffectiveClose THEN call'.pnl ELSE 0)
          /\ SnapshotAfter.fees_paid =
                 SnapshotNow.fees_paid + (IF EffectiveClose THEN call'.fees ELSE 0)
          /\ SnapshotAfter.unrealized_pnl = SumOver(positions', OpenIndexes(positions'))
          /\ SnapshotAfter.total_pnl =
                 AddMoney(AddMoney(Money(SnapshotAfter.realized_pnl),
                                   SnapshotAfter.unrealized_pnl),
                          Money(0 - SnapshotAfter.fees_paid))
          /\ (call' # call /\ call'.op = "get_snapshot") =>
                 /\ call'.ret = SnapshotNow
                 /\ UNCHANGED <<guardVars, portVars, pending>>]_vars

\* get_snapshot was called with one position closed at a loss and another still
\* open: only the open one counts as unrealized
C26_Witness ==
    /\ call.op = "get_snapshot"
    /\ call.ret.realized_pnl < 0
    /\ call.ret.fees_paid > 0
    /\ call.ret.unrealized_pnl.num > 0
    /\ \E i, j \in 1..Len(positions) :
           positions[i].status = "closed" /\ positions[j].status = "open"

-----------------------------------------------------------------------------
(* Claims about the scan cycle's faults (FetchSpec) *)

\* a venue's fetch of the current cycle failed or returned an empty list
FetchFailedOrEmpty ==
    \/ call.poly.fault \/ FetchMarkets(call.poly) = <<>>
    \/ call.kalshi.fault \/ FetchMarkets(call.kalshi) = <<>>

\* C28: if in a cycle either venue's fetch fails or returns an empty list, the cycle
\* yields no opportunities: nothing is validated, sized or executed, guard.used and
\* the position list stay as they were when the cycle began, and the cycle ends
\* without error.
C28_NoOpportunitiesOnFailedFetch ==
    (call.op = "scan_all" /\ FetchFailedOrEmpty) =>
        /\ pending = <<>>
        /\ pc[1] = "idle"
        /\ used = call.usedBefore
        /\ positions = call.positionsBefore

-----------------------------------------------------------------------------
(* Claims about the scan cycle's faults (FaultSpec) *)

\* this step is a fault raised in the cycle
FaultStep == call' # call /\ call'.op = "cycle_fault"

\* this step is an execute call returning the capital rejection
RejectionStep == ret' # ret /\ ret'.message = "Insufficient capital allocation"

\* C29: run_scan_cycle never propagates a fault to the periodic driver: whatever
\* fault is raised while scanning, validating, sizing or executing, the cycle ends
\* normally (the task is idle with nothing left to handle, so the next scheduled
\* cycle runs), the error alert is sent and guard and positions are as the fault
\* found them; a capital rejection is a failure result returned by execute, not a
\* fault.
C29_FaultsContained ==
    [][/\ pc'[1] # "raised"
       /\ FaultStep =>
              /\ CycleIdle'
              /\ "cycle_error" \in alerts'
              /\ used' = used
              /\ positions' = positions
       /\ RejectionStep =>
              /\ ~ret'.success
              /\ ~FaultStep
              /\ pc'[1] = "idle"
              /\ used' = used
              /\ positions' = positions]_vars

\* a cycle opened a position, execute returned a capital rejection for a size the
\* guard had no room for, and a later cycle ended by a fault raised inside execute
\* after the Kalshi order
C29_Witness ==
    /\ Returned
    /\ ret.message = "Insufficient capital allocation"
    /\ ret.size_usd > 0
    /\ call.op = "cycle_fault"
    /\ call.at = "kalshi"
    /\ "cycle_error" \in alerts
    /\ positions # <<>>
    /\ CycleIdle

-----------------------------------------------------------------------------
(* Claims about the validator (ValidateSpec) *)

-----------------------------------------------------------------------------
(* Claims about the detector (ScanSpec) *)

\* the titles of input pair (i, j) of the recorded scan match
PairMatches(i, j) == QuestionSimilarity(call.poly[i].question, call.kalshi[j].title)

\* the exact total cost of input pair (i, j)
PairCost(i, j) == TotalCost(call.poly[i], call.kalshi[j])

\* the recorded scan returned an opportunity for input pair (i, j): one carrying the
\* pair's profit and venue identifiers
PairEmitted(i, j) ==
    \E k \in 1..Len(call.ret) :
        /\ call.ret[k].profit = ProfitPct(PairCost(i, j))
        /\ call.ret[k].poly_yes_token_id = call.poly[i].yes_token_id
        /\ call.ret[k].kalshi_ticker = call.kalshi[j].ticker

\* C21: for every pair of input markets whose titles match, scan emits an
\* opportunity for the pair iff totalCost < 1.0 and profitPct >= the threshold,
\* whatever the state of the capital ledger.
C21_EmittedIffProfitable ==
    call.op = "scan" =>
        \A i \in 1..Len(call.poly), j \in 1..Len(call.kalshi) :
            PairMatches(i, j) =>
                (PairEmitted(i, j) <=>
                    /\ PairCost(i, j) < 1000000
                    /\ ProfitAtLeast(ProfitPct(PairCost(i, j)), minProfitPct))

\* C22: a matched pair whose totalCost is exactly 1.0 or greater never produces an
\* opportunity, for any threshold, zero and negative ones included.
C22_NoOpportunityAtCostOne ==
    call.op = "scan" =>
        \A i \in 1..Len(call.poly), j \in 1..Len(call.kalshi) :
            (PairMatches(i, j) /\ PairCost(i, j) >= 1000000) => ~PairEmitted(i, j)

\* the levels of used that allocate calls can reach under maxCapital
LedgerLevels == {u \in 0..maxCapital : u % 100 = 0}

\* C23: scan is a function of its two market lists only: in guard states that differ
\* in used capital it returns the same list for the same lists, and every emitted
\* opportunity carries the fixed nominal size, not a value clamped by the ledger.
C23_ScanIgnoresLedger ==
    call.op = "scan" =>
        /\ \A u \in LedgerLevels :
               ScanPmPolyKalshi(call.poly, call.kalshi, maxCapital, u, guardHasConfig,
                                maxPositionPct, minProfitPct) = call.ret
        /\ \A k \in 1..Len(call.ret) : call.ret[k].size_usd = NominalSize

-----------------------------------------------------------------------------
(* Claims about scan followed by validation (PipelineSpec) *)

\* C33: with the rule-based validator (no model configured), every opportunity
\* emitted by scan is accepted by validate_opportunity under the same configuration:
\* both compare the same profit figure with the same threshold.
C33_ValidatorAcceptsScanned ==
    (call.op = "validate" /\ ~llmConfigured) => call.ret = TRUE

\* scan emitted the pair with profit 2.6894 percent at the threshold 2.68, and the
\* rule-based validator accepted it, whatever a model would have answered
C33_Witness ==
    /\ call.op = "validate"
    /\ ~llmConfigured
    /\ minProfitPct = 268
    /\ call.opp.profit = [num |-> 26190, den |-> 973810]
    /\ call.llm = "no"
    /\ call.ret = TRUE

-----------------------------------------------------------------------------
(* Claims about the venue parsers (ParseSpec) *)

\* C34: every market record built by the venue parsers, for any order book and
\* last price (in whole cents), has yesAsk >= yesBid, noAsk >= noBid,
\* noAsk = 1 - yesBid and noBid = 1 - yesAsk, with all four prices in [0, 1].
C34_MarketPricesConsistent ==
    call.op = "parse" =>
        /\ call.ret.yes_ask >= call.ret.yes_bid
        /\ call.ret.no_ask >= call.ret.no_bid
        /\ call.ret.no_ask = 100 - call.ret.yes_bid
        /\ call.ret.no_bid = 100 - call.ret.yes_ask
        /\ \A f \in {"yes_bid", "yes_ask", "no_bid", "no_ask"} :
               call.ret[f] >= 0 /\ call.ret[f] <= 100

-----------------------------------------------------------------------------
(* Claims about the matcher (MatchSpec) *)

\* C24: match(a, b) = match(b, a) for all pairs of texts.
C24_MatchSymmetric ==
    call.op = "match" => call.ret = QuestionSimilarity(call.q2, call.q1)

\* two texts with different token sets, one of one token and one of five, match
C24_Witness ==
    /\ call.op = "match"
    /\ call.ret
    /\ Cardinality(NormalizeTokens(call.q1)) = 1
    /\ Cardinality(NormalizeTokens(call.q2)) = 5

\* the lowercase alphanumeric tokens of length > 2 of a text, minus the stopwords:
\* the maximal runs of letters and digits of the lower-cased text
AlphanumericTokens(text) ==
    LET runs == Split([i \in 1..Len(text) |->
                         IF Lower(text[i]) \in LowerCase \cup Digits
                         THEN Lower(text[i]) ELSE " "])
    IN  {t \in runs : Len(t) > 2 /\ t \notin Stopwords}

\* C25: match(textA, textB) is true iff both normalized token sets (lowercase
\* alphanumeric tokens of length > 2, minus stopwords) are non-empty and
\* |A \cap B| / |A \cup B| >= 0.2; a text that is empty or holds only stopwords or
\* short tokens matches nothing, not even itself.
C25_MatchIffJaccard ==
    call.op = "match" =>
        LET A == AlphanumericTokens(call.q1)
            B == AlphanumericTokens(call.q2)
        IN  /\ call.ret <=> /\ A # {}
                            /\ B # {}
                            /\ 5 * Cardinality(A \cap B) >= Cardinality(A \cup B)
            /\ (A = {} \/ B = {}) => ~call.ret

====
